---- MODULE Spec2Model ----
(***************************************************************************)
(* MAAP-data-pipelines: the s3-discovery lambda (byte-bounded, resumable   *)
(* batches of file descriptors), the identifier derivation of the          *)
(* build-stac event model, the build-stac lambda (event variant selection *)
(* and the inline / pointer output decision) and the stac-gen lambda       *)
(* (strategy selection and its handling of failures).                      *)
(***************************************************************************)
EXTENDS Integers, Sequences, FiniteSets, TLC

VARIABLES
    listing,     \* the bucket listing under the prefix: objects in key order
    event,       \* the request object handed to the s3-discovery handler
    response,    \* outcome of the last s3-discovery invocation
    emitted,     \* concatenation of the objects of all batches, in call order
    first_after, \* the cursor supplied to the first invocation (NoKey: none)
    request,     \* the request as it was when the last invocation started
    calls,       \* number of s3-discovery invocations so far
    pc,          \* position of the orchestrator loop
    base_event,  \* a parsed BaseEvent (remote_fileurl, id_regex, product_id)
    id_result,   \* outcome of BaseEvent.item_id on base_event
    raw_event,   \* the raw event handed to the build-stac handler
    stac_out,    \* outcome of the last build-stac invocation
    store,       \* addresses written by build-stac, in write order
    gen_call,    \* the event of the last stac-gen invocation and what its
                 \* collaborators did during it
    gen_out      \* outcome of the last stac-gen invocation

vars == <<listing, event, response, emitted, first_after, request, calls, pc,
          base_event, id_result, raw_event, stac_out, store, gen_call, gen_out>>

discovery_vars ==
    <<listing, event, response, emitted, first_after, request, calls, pc>>
item_id_vars == <<base_event, id_result>>
build_stac_vars == <<raw_event, stac_out, store>>
stac_gen_vars == <<gen_call, gen_out>>

(***************************************************************************)
(* Bounds of the model.                                                    *)
(***************************************************************************)
MaxKey == 4      \* keys of the listing are drawn from 1..MaxKey
PageSize == 3    \* objects per page of the list_objects_v2 paginator

None == "None"
NoKey == 0       \* start_after absent (keys are >= 1)

\* serialized sizes a descriptor may have (bytes)
Sizes == {80000, 115000, 240000}
Exts == {"tif", "txt"}

\* src/lambdas/s3-discovery/handler.py:61
BatchBudget == 230000

Min(a, b) == IF a < b THEN a ELSE b

(***************************************************************************)
(* s3-discovery                                                            *)
(***************************************************************************)

\* The listings the store can hold: distinct keys in increasing order, each
\* object with an extension and the serialized size of its descriptor.
KeysOf(S) == SelectSeq([k \in 1..MaxKey |-> k], LAMBDA k: k \in S)

Listings ==
    UNION { { [i \in 1..Len(KeysOf(S)) |->
                 [Key |-> KeysOf(S)[i], ext |-> e[KeysOf(S)[i]],
                  json_len |-> z[KeysOf(S)[i]]]]
              : e \in [S -> Exts], z \in [S -> Sizes] }
            : S \in SUBSET (1..MaxKey) }

\* filename_regex of the request: None, or the pattern "^(.*).tif$"
FilenameRegexes == {None, "tif"}

\* re.match(filename_regex, filename)
re_match(filename_regex, obj) == obj.ext = filename_regex

\* s3paginator.paginate(Bucket, Prefix[, StartAfter]): the objects whose key is
\* strictly greater than StartAfter, PageSize per page; an empty result is one
\* page without "Contents".
paginate(objs, start_after) ==
    LET rest == SelectSeq(objs, LAMBDA o: o.Key > start_after)
        n == Len(rest)
    IN IF n = 0
       THEN << [HasContents |-> FALSE, Contents |-> << >>] >>
       ELSE [p \in 1..((n + PageSize - 1) \div PageSize) |->
               [HasContents |-> TRUE,
                Contents |-> SubSeq(rest, (p - 1) * PageSize + 1,
                                    Min(p * PageSize, n))]]

\* event.pop("cogify", False); event.pop("start_after", None)
PopCogifyGet(ev) == ev
PopCogify(ev) == [ev EXCEPT !.cogify = "absent"]

PopStartAfterGet(ev) == ev
PopStartAfter(ev) == [ev EXCEPT !.start_after = NoKey]

\* file_obj = {...}: the descriptor of one listed object
file_obj(obj) == [remote_fileurl |-> obj.Key, json_len |-> obj.json_len]

\* if file_objs_size > 230000
OverBudgetAdvertised(file_objs_size) == file_objs_size > 256000
OverBudgetInverted(file_objs_size) == file_objs_size < BatchBudget
OverBudget(file_objs_size) == file_objs_size > BatchBudget

\* payload["start_after"] = start_after, where the loop is left at obj
BreakCursorAtObj(start_after, obj) == obj.Key
BreakCursor(start_after, obj) == start_after

\* "Contents" not in page
NoContentsIgnored(page) == FALSE
NoContents(page) == ~page.HasContents

\* the inner loop: for obj in page["Contents"]
RECURSIVE ScanContents(_, _, _, _)
ScanContents(contents, i, filename_regex, st) ==
    IF i > Len(contents) THEN st
    ELSE IF OverBudget(st.file_objs_size)
    THEN [st EXCEPT !.payload_start_after =
                        BreakCursor(st.start_after, contents[i]),
                    !.tripped = IF @ = NoKey THEN contents[i].Key ELSE @]
    ELSE IF filename_regex # None /\ ~re_match(filename_regex, contents[i])
    THEN ScanContents(contents, i + 1, filename_regex, st)
    ELSE ScanContents(contents, i + 1, filename_regex,
            [st EXCEPT !.objects = Append(@, file_obj(contents[i])),
                       !.file_objs_size = @ + contents[i].json_len,
                       !.start_after = contents[i].Key])

\* file_objs_size = 0 is set once, before the loops: a page's scan starts from
\* the running total the page before it left
NextPageRestarted(st) == [st EXCEPT !.file_objs_size = 0]
NextPage(st) == st

\* the outer loop: for page in pages
RECURSIVE ScanPages(_, _, _, _)
ScanPages(pages, p, filename_regex, st) ==
    IF p > Len(pages) THEN st
    ELSE IF NoContents(pages[p])
    THEN [st EXCEPT !.raised = "NoFilesFound"]
    ELSE ScanPages(pages, p + 1, filename_regex,
                   ScanContents(pages[p].Contents, 1, filename_regex,
                                NextPage(st)))

\* print(payload["objects"][0])
PrintFirstSafe(st) == st
PrintFirst(st) ==
    IF st.raised = None /\ st.objects = << >>
    THEN [st EXCEPT !.raised = "IndexError"]
    ELSE st

\* The body of handler(event, context) from the paginate call to the return.
Scan(ev) ==
    LET start_after == ev.start_after
        popped == PopStartAfter(PopCogify(ev))
        st0 == [objects |-> << >>, file_objs_size |-> 0,
                start_after |-> start_after,
                payload_start_after |-> popped.start_after,
                tripped |-> NoKey, raised |-> None]
    IN PrintFirst(ScanPages(paginate(listing, start_after), 1,
                            ev.filename_regex, st0))

\* What the caller of handler(event, context) gets: the payload, or an exception.
Outcome(ev) ==
    LET st == Scan(ev)
    IN IF st.raised # None
       THEN [status |-> st.raised, filename_regex |-> ev.filename_regex,
             cogify |-> "absent", objects |-> << >>, start_after |-> NoKey,
             tripped |-> st.tripped]
       ELSE [status |-> "returned", filename_regex |-> ev.filename_regex,
             cogify |-> IF ev.cogify = "true" THEN "true" ELSE "false",
             objects |-> st.objects, start_after |-> st.payload_start_after,
             tripped |-> st.tripped]

NoResponse ==
    [status |-> "none", filename_regex |-> None, cogify |-> "absent",
     objects |-> << >>, start_after |-> NoKey, tripped |-> NoKey]

DiscoveryIdle ==
    /\ listing = << >>
    /\ event = [filename_regex |-> None, cogify |-> "absent",
                start_after |-> NoKey]
    /\ response = NoResponse
    /\ emitted = << >>
    /\ first_after = NoKey
    /\ request = event
    /\ calls = 0
    /\ pc = "off"

DiscoveryInit ==
    /\ listing \in Listings
    /\ event \in [filename_regex : FilenameRegexes,
                  cogify : {"absent", "true"},
                  start_after : 0..MaxKey]
    /\ response = NoResponse
    /\ emitted = << >>
    /\ first_after = event.start_after
    /\ request = event
    /\ calls = 0
    /\ pc = "ready"

\* One invocation of the s3-discovery handler on the request object `event`.
s3_discovery_handler ==
    /\ pc = "ready"
    /\ response' = Outcome(event)
    /\ event' = PopStartAfter(PopCogify(event))
    /\ emitted' = emitted \o response'.objects
    /\ request' = event
    /\ calls' = calls + 1
    /\ pc' = IF response'.status = "returned" THEN "returned" ELSE "raised"
    /\ UNCHANGED <<listing, first_after>>
    /\ UNCHANGED <<item_id_vars, build_stac_vars, stac_gen_vars>>

\* The orchestrator feeds the returned payload back as the next request when it
\* carries start_after ...
Resume ==
    /\ pc = "returned"
    /\ response.start_after # NoKey
    /\ event' = [filename_regex |-> response.filename_regex,
                 cogify |-> response.cogify,
                 start_after |-> response.start_after]
    /\ pc' = "ready"
    /\ UNCHANGED <<listing, response, emitted, first_after, request, calls>>
    /\ UNCHANGED <<item_id_vars, build_stac_vars, stac_gen_vars>>

\* ... and stops when it does not.
Finish ==
    /\ pc = "returned"
    /\ response.start_after = NoKey
    /\ pc' = "done"
    /\ UNCHANGED <<listing, event, response, emitted, first_after, request,
                   calls>>
    /\ UNCHANGED <<item_id_vars, build_stac_vars, stac_gen_vars>>

(***************************************************************************)
(* build-stac: BaseEvent.item_id                                           *)
(***************************************************************************)
MaxUrlLen == 4   \* remote_fileurl has at most MaxUrlLen characters
MaxPatLen == 2   \* id_regex has at most MaxPatLen groups

\* Strings are sequences of characters; NoneStr is Python's None.
NoneStr == << "None" >>
UrlChars == {"a", "b", "/", "."}
Strings(chars, n) == UNION { [1..k -> chars] : k \in 0..n }
Urls == Strings(UrlChars, MaxUrlLen)

\* id_regex: None, the empty pattern, or a sequence of one-character groups,
\* "a" for the group (a), "b" for (b) and "?" for (.)
IdRegexes == {NoneStr} \cup Strings({"a", "b", "?"}, MaxPatLen)
ProductIds == {NoneStr, << >>, << "p" >>}

\* the truth value of an Optional[str]: None and "" are false
Truthy(s) == s # NoneStr /\ s # << >>

Max(a, b) == IF a > b THEN a ELSE b

\* the pattern matches url at position pos
MatchesAt(pat, url, pos) ==
    /\ pos + Len(pat) - 1 <= Len(url)
    /\ \A j \in 1..Len(pat) : pat[j] = "?" \/ pat[j] = url[pos + j - 1]

\* re.findall(id_regex, remote_fileurl): the non-overlapping matches from left
\* to right, each the tuple of its groups; the empty pattern matches at every
\* position, the end included
RECURSIVE FindAllFrom(_, _, _)
FindAllFrom(pat, url, pos) ==
    IF pos > Len(url) + 1 THEN << >>
    ELSE IF MatchesAt(pat, url, pos)
    THEN << SubSeq(url, pos, pos + Len(pat) - 1) >>
            \o FindAllFrom(pat, url, pos + Max(Len(pat), 1))
    ELSE FindAllFrom(pat, url, pos + 1)

re_findall(pat, url) == FindAllFrom(pat, url, 1)

\* "-".join(groups)
RECURSIVE Join(_)
Join(groups) ==
    IF Len(groups) <= 1 THEN groups
    ELSE << Head(groups), "-" >> \o Join(Tail(groups))

\* the components of a pathlib.Path: split at "/", empty and "." components dropped
KeepPart(part) == part # << >> /\ part # << "." >>
RECURSIVE SplitPath(_, _, _)
SplitPath(url, parts, cur) ==
    IF url = << >>
    THEN IF KeepPart(cur) THEN Append(parts, cur) ELSE parts
    ELSE IF Head(url) = "/"
    THEN SplitPath(Tail(url),
                   IF KeepPart(cur) THEN Append(parts, cur) ELSE parts, << >>)
    ELSE SplitPath(Tail(url), parts, Append(cur, Head(url)))

\* Path(remote_fileurl).stem: the last component without its last suffix
PathStem(url) ==
    LET parts == SplitPath(url, << >>, << >>)
        name == IF parts = << >> THEN << >> ELSE parts[Len(parts)]
        dots == {i \in 1..Len(name) : name[i] = "."}
        i == IF dots = {} THEN 0 ELSE CHOOSE d \in dots : \A e \in dots : e <= d
    IN IF 1 < i /\ i < Len(name) THEN SubSeq(name, 1, i - 1) ELSE name

\* if self.id_regex
IdRegexGiven(ev) == Truthy(ev.id_regex)
\* elif self.product_id
ProductIdGiven(ev) == Truthy(ev.product_id)

\* assert len(id_components) == 1
ExactlyOneAtLeastOne(id_components) == Len(id_components) >= 1
ExactlyOne(id_components) == Len(id_components) = 1

IdReturned(id) == [status |-> "returned", id |-> id]
IdRaised(error) == [status |-> error, id |-> << >>]

\* BaseEvent.item_id with the product id looked at first
item_id_product_first(ev) ==
    IF ProductIdGiven(ev) THEN IdReturned(ev.product_id)
    ELSE IF IdRegexGiven(ev)
    THEN LET id_components == re_findall(ev.id_regex, ev.remote_fileurl)
         IN IF ExactlyOne(id_components)
            THEN IdReturned(Join(id_components[1]))
            ELSE IdRaised("AssertionError")
    ELSE IdReturned(PathStem(ev.remote_fileurl))

\* BaseEvent.item_id
item_id(ev) ==
    IF IdRegexGiven(ev)
    THEN LET id_components == re_findall(ev.id_regex, ev.remote_fileurl)
         IN IF ExactlyOne(id_components)
            THEN IdReturned(Join(id_components[1]))
            ELSE IdRaised("AssertionError")
    ELSE IF ProductIdGiven(ev) THEN IdReturned(ev.product_id)
    ELSE IdReturned(PathStem(ev.remote_fileurl))

ItemIdInit ==
    /\ base_event \in [remote_fileurl : Urls, id_regex : IdRegexes,
                       product_id : ProductIds]
    /\ id_result = [status |-> "none", id |-> << >>]

\* One call of base_event.item_id()
call_item_id ==
    /\ id_result.status = "none"
    /\ id_result' = item_id(base_event)
    /\ UNCHANGED base_event
    /\ UNCHANGED <<discovery_vars, build_stac_vars, stac_gen_vars>>

(***************************************************************************)
(* build-stac: handler                                                     *)
(***************************************************************************)
MaxInvocations == 2   \* invocations of the build-stac handler in one run
NumUuids == 2         \* values uuid4() can return beyond one per invocation

\* src/lambdas/build-stac/handler.py:46: 256 * 1024
InlineLimit == 256 * 1024
\* len('{"stac_item": ' + '}'): what json.dumps(output) adds to json.dumps(stac_item)
Envelope == 15
\* sys.getsizeof of an ASCII str is its length plus the CPython object header
StrHeader == 49

\* json.dumps(stac_item) lengths the handler is tried on
ItemLens ==
    {1000, InlineLimit - Envelope - StrHeader - 1,
     InlineLimit - Envelope - StrHeader, InlineLimit - 1, InlineLimit}

\* granule_id of a raw event: key absent, null, "", or an id
GranuleIds == {"absent", "null", "", "G1200110617-ESA_MAAP"}

\* raw events: granule_id, whether the required collection and remote_fileurl
\* are there, whether a filename_regex is there
RawEvents ==
    [granule_id : GranuleIds, required : BOOLEAN, filename_regex : BOOLEAN]

\* event.get("granule_id") as a condition
HasGranuleIdKey(ev) == ev.granule_id # "absent"
GetGranuleId(ev) == ev.granule_id \notin {"absent", "null", ""}

\* EventType = events.CmrEvent if event.get("granule_id") else events.RegexEvent
EventType(ev) == IF GetGranuleId(ev) THEN "CmrEvent" ELSE "RegexEvent"

\* EventType.parse_obj(event): collection and remote_fileurl are required by
\* both variants, fields a variant does not declare are ignored
parse_obj(variant, ev) == IF ev.required THEN "parsed" ELSE "ValidationError"

\* sys.getsizeof(json.dumps(output))
getsizeof_output(item_len) == item_len + Envelope + StrHeader

\* if getsizeof(json.dumps(output)) < (256 * 1024)
ReturnsInline(item_len) == getsizeof_output(item_len) < InlineLimit

\* uuid4(): a value no earlier call returned (its uniqueness is taken for granted)
Uuids == 1..(MaxInvocations + NumUuids)
uuid4(st) == {u \in Uuids : \A i \in 1..Len(st) : st[i].key # u}

\* key = f"s3://{os.environ['BUCKET']}/{uuid4()}.json"
stac_file_url_of_content(uuid, item_len) == item_len
stac_file_url(uuid, item_len) == uuid

\* with smart_open.open(key, "w") as file: file.write(json.dumps(stac_item))
write_skipped(st, key, item_len) == st
write(st, key, item_len) == Append(st, [key |-> key, item_len |-> item_len])

NoStacOut ==
    [n |-> 0, status |-> "none", variant |-> "none", kind |-> "none",
     item_len |-> 0, key |-> 0]

BuildStacInit ==
    /\ raw_event = [granule_id |-> "absent", required |-> FALSE,
                    filename_regex |-> FALSE]
    /\ stac_out = NoStacOut
    /\ store = << >>

\* One invocation of the build-stac handler on the raw event ev;
\* stac.generate_stac either fails or gives an item whose JSON has item_len
\* characters, uuid4() gives uuid.
build_stac_handler ==
    /\ stac_out.n < MaxInvocations
    /\ \E ev \in RawEvents, generated \in BOOLEAN, item_len \in ItemLens,
          uuid \in uuid4(store) :
        LET variant == EventType(ev)
            key == stac_file_url(uuid, item_len)
            out == [n |-> stac_out.n + 1, status |-> "returned",
                    variant |-> variant, kind |-> "none",
                    item_len |-> 0, key |-> 0]
        IN /\ raw_event' = ev
           /\ IF parse_obj(variant, ev) # "parsed"
              THEN /\ stac_out' = [out EXCEPT !.status = "ValidationError"]
                   /\ store' = store
              ELSE IF ~generated
              THEN /\ stac_out' = [out EXCEPT !.status = "GenerateStacError"]
                   /\ store' = store
              ELSE IF ReturnsInline(item_len)
              THEN /\ stac_out' = [out EXCEPT !.kind = "stac_item",
                                              !.item_len = item_len]
                   /\ store' = store
              ELSE /\ stac_out' = [out EXCEPT !.kind = "stac_file_url",
                                              !.item_len = item_len,
                                              !.key = key]
                   /\ store' = write(store, key, item_len)
    /\ UNCHANGED <<discovery_vars, item_id_vars, stac_gen_vars>>

(***************************************************************************)
(* stac-gen: handler                                                       *)
(***************************************************************************)
MaxGenInvocations == 2   \* invocations of the stac-gen handler in one run

\* The events of the stac-gen handler: whether the granule_id key, the
\* datetime_regex key and the s3_filename and collection keys are there.
GenEvents == [granule_id : BOOLEAN, datetime_regex : BOOLEAN, fields : BOOLEAN]

\* An invocation: the event, and whether the CMR lookup, the compilation of the
\* pattern, the parsing of the date from the filename and rio_stac's
\* create_stac_item succeed during it.
GenCalls ==
    [event : GenEvents, cmr_ok : BOOLEAN, pattern_ok : BOOLEAN,
     date_ok : BOOLEAN, item_ok : BOOLEAN]

\* create_item: the pystac item, or the message string when the builder fails
create_item(call) == IF call.item_ok THEN "Item" ELSE "str"

\* create_stac_item_with_cmr: raises when the lookup fails or a key is missing
create_stac_item_with_cmr(call) ==
    IF ~call.cmr_ok THEN "raise:cmr"
    ELSE IF ~call.event.fields THEN "raise:KeyError"
    ELSE create_item(call)

\* create_stac_item_with_regex: raises on a missing key or a malformed pattern,
\* returns the exception object when the date cannot be parsed
create_stac_item_with_regex(call) ==
    IF ~call.event.fields THEN "raise:KeyError"
    ELSE IF ~call.pattern_ok THEN "raise:re.error"
    ELSE IF ~call.date_ok THEN "Exception"
    ELSE create_item(call)

\* the first try block of handler: the value bound to stac_item, or what is raised
select_strategy(call) ==
    IF call.event.granule_id
    THEN IF call.event.datetime_regex
         THEN "raise:both"
         ELSE create_stac_item_with_cmr(call)
    ELSE IF call.event.datetime_regex
    THEN create_stac_item_with_regex(call)
    ELSE "raise:neither"

\* except Exception as e: print(e); return
Swallow(stac_item, n) ==
    [n |-> n, raised |-> "none", returned |-> "None", printed |-> stac_item]

\* handler(event, context) of stac-gen: what its caller gets
stac_gen_outcome(call, n) ==
    LET stac_item == select_strategy(call)
    IN IF stac_item \notin {"Item", "str", "Exception"}
       THEN Swallow(stac_item, n)
       ELSE IF stac_item # "Item"
       THEN Swallow("raise:AttributeError", n)
       ELSE [n |-> n, raised |-> "none", returned |-> "stac_item",
             printed |-> "stac_dict"]

StacGenInit ==
    /\ gen_call = [event |-> [granule_id |-> FALSE, datetime_regex |-> FALSE,
                              fields |-> FALSE],
                   cmr_ok |-> FALSE, pattern_ok |-> FALSE, date_ok |-> FALSE,
                   item_ok |-> FALSE]
    /\ gen_out = [n |-> 0, raised |-> "none", returned |-> "nothing",
                  printed |-> "nothing"]

\* One invocation of the stac-gen handler
stac_gen_handler ==
    /\ gen_out.n < MaxGenInvocations
    /\ \E call \in GenCalls :
        /\ gen_call' = call
        /\ gen_out' = stac_gen_outcome(call, gen_out.n + 1)
    /\ UNCHANGED <<discovery_vars, item_id_vars, build_stac_vars>>

(***************************************************************************)
(* Specifications                                                          *)
(***************************************************************************)
ItemIdIdle ==
    /\ base_event = [remote_fileurl |-> << >>, id_regex |-> NoneStr,
                     product_id |-> NoneStr]
    /\ id_result = [status |-> "none", id |-> << >>]

BuildStacIdle == BuildStacInit

StacGenIdle == StacGenInit

InitDiscovery == DiscoveryInit /\ ItemIdIdle /\ BuildStacIdle /\ StacGenIdle

NextDiscovery ==
    \/ s3_discovery_handler
    \/ Resume
    \/ Finish

SpecDiscovery == InitDiscovery /\ [][NextDiscovery]_vars

InitItemId == DiscoveryIdle /\ ItemIdInit /\ BuildStacIdle /\ StacGenIdle

NextItemId == call_item_id

SpecItemId == InitItemId /\ [][NextItemId]_vars

InitBuildStac == DiscoveryIdle /\ ItemIdIdle /\ BuildStacInit /\ StacGenIdle

NextBuildStac == build_stac_handler

SpecBuildStac == InitBuildStac /\ [][NextBuildStac]_vars

InitStacGen == DiscoveryIdle /\ ItemIdIdle /\ BuildStacIdle /\ StacGenInit

NextStacGen == stac_gen_handler

SpecStacGen == InitStacGen /\ [][NextStacGen]_vars

(***************************************************************************)
(* Properties of s3-discovery                                              *)
(***************************************************************************)
RECURSIVE SumLen(_)
SumLen(objs) ==
    IF objs = << >> THEN 0 ELSE Head(objs).json_len + SumLen(Tail(objs))

Front(s) == SubSeq(s, 1, Len(s) - 1)
Last(s) == s[Len(s)]

\* the listed objects after the key `after`, and those of them passing the filter
ListedAfter(after) == SelectSeq(listing, LAMBDA o: o.Key > after)
MatchingAfter(filename_regex, after) ==
    SelectSeq(listing, LAMBDA o: /\ o.Key > after
                                 /\ \/ filename_regex = None
                                    \/ o.ext = filename_regex)
Descriptors(objs) ==
    [i \in 1..Len(objs) |->
        [remote_fileurl |-> objs[i].Key, json_len |-> objs[i].json_len]]

Returned == calls >= 1 /\ response.status = "returned"

\* C1 (as claimed): every returned batch with more than one descriptor has a
\* total serialized size of at most the batch budget.
C1_BatchWithinBudget ==
    (Returned /\ Len(response.objects) > 1)
        => SumLen(response.objects) <= BatchBudget

\* C1 (amended): in every returned batch the descriptors before the last one
\* total at most the batch budget; the last descriptor may take the total above it.
C1_AllButLastWithinBudget ==
    (Returned /\ response.objects # << >>)
        => SumLen(Front(response.objects)) <= BatchBudget

C1_Witness ==
    /\ Returned
    /\ Len(response.objects) > 1
    /\ SumLen(response.objects) > BatchBudget
    /\ response.start_after # NoKey

\* C2: when the orchestrator loop that started without a cursor has received a
\* response without start_after, the concatenation of all batches is exactly the
\* descriptors of the matching listed objects in listing order; before that it is
\* a prefix of them.
C2_ConcatenationIsListing ==
    first_after = NoKey =>
        LET all == Descriptors(MatchingAfter(request.filename_regex, NoKey))
        IN /\ Len(emitted) <= Len(all)
           /\ emitted = SubSeq(all, 1, Len(emitted))
           /\ pc = "done" => emitted = all

C2_Witness ==
    /\ first_after = NoKey
    /\ pc = "done"
    /\ calls >= 2
    /\ Len(emitted) >= 3
    /\ Len(emitted) < Len(listing)

\* the listing of the scenario: p/a.tif, p/b.tif, p/c.tif, 80000 bytes each
ScenarioListing ==
    [i \in 1..3 |-> [Key |-> i, ext |-> "tif", json_len |-> 80000]]
Scenario ==
    /\ listing = ScenarioListing
    /\ request.filename_regex = "tif"
    /\ first_after = NoKey

\* C3 (as claimed): the first call returns a.tif and b.tif with start_after
\* p/b.tif, the second call returns c.tif and no start_after.
C3_TwoBatches ==
    Scenario =>
        /\ calls = 1 =>
              /\ response.objects = Descriptors(SubSeq(ScenarioListing, 1, 2))
              /\ response.start_after = 2
        /\ calls = 2 =>
              /\ response.objects = Descriptors(SubSeq(ScenarioListing, 3, 3))
              /\ response.start_after = NoKey

\* C3 (amended): the first call returns a.tif, b.tif and c.tif and no
\* start_after, so there is no second call.
C3_OneBatch ==
    (Scenario /\ calls >= 1) =>
        /\ calls = 1
        /\ response.status = "returned"
        /\ response.objects = Descriptors(ScenarioListing)
        /\ response.start_after = NoKey

C3_Witness == Scenario /\ pc = "done"

\* C4: a returned start_after is the key of the last descriptor of the batch, and
\* it is returned only when the budget cut the scan short; a start_after of the
\* request is never carried into the response.
C4_CursorIsLastKey ==
    Returned =>
        /\ response.start_after # NoKey =>
              /\ response.objects # << >>
              /\ response.start_after = Last(response.objects).remote_fileurl
              /\ response.tripped # NoKey
        /\ response.tripped = NoKey => response.start_after = NoKey

C4_Witness ==
    /\ Returned
    /\ request.start_after # NoKey
    /\ response.start_after = NoKey
    /\ calls >= 2

\* C5 (as claimed): without start_after every matching object after the resume
\* point is in the batch; with start_after some matching object after the last
\* descriptor is still to be emitted.
C5_CursorIffMatchingRemain ==
    Returned =>
        /\ response.start_after = NoKey =>
              response.objects =
                  Descriptors(MatchingAfter(request.filename_regex,
                                            request.start_after))
        /\ response.start_after # NoKey =>
              MatchingAfter(request.filename_regex,
                            Last(response.objects).remote_fileurl) # << >>

\* C5 (amended): without start_after every matching object after the resume
\* point is in the batch; with start_after some listed object after the last
\* descriptor is still to be scanned, whether or not it matches the filter.
C5_CursorIffListedRemain ==
    Returned =>
        /\ response.start_after = NoKey =>
              response.objects =
                  Descriptors(MatchingAfter(request.filename_regex,
                                            request.start_after))
        /\ response.start_after # NoKey =>
              /\ response.objects # << >>
              /\ ListedAfter(response.start_after) # << >>
              /\ ListedAfter(Last(response.objects).remote_fileurl) # << >>

C5_Witness ==
    /\ Returned
    /\ response.start_after # NoKey
    /\ MatchingAfter(request.filename_regex, response.start_after) = << >>

\* C6 (as claimed): an invocation whose listing returns at least one object
\* returns a batch, also when no scanned object passes the filter.
C6_NeverRaises ==
    (calls >= 1 /\ ListedAfter(request.start_after) # << >>)
        => response.status = "returned"

\* C7: when the listing returns no object at all, the invocation fails with the
\* not-found error and returns neither objects nor a cursor.
C7_EmptyListingRaises ==
    (calls >= 1 /\ ListedAfter(request.start_after) = << >>)
        => /\ response.status = "NoFilesFound"
           /\ response.objects = << >>
           /\ response.start_after = NoKey
           /\ pc = "raised"

C7_Witness ==
    /\ calls >= 1
    /\ listing # << >>
    /\ ListedAfter(request.start_after) = << >>
    /\ response.status = "NoFilesFound"

\* C15 (as claimed): every cursor returned is greater than the cursor supplied
\* to that call, and no resumed call of the orchestrator loop ends in an error.
C15_LoopEndsWithoutError ==
    first_after = NoKey =>
        /\ (Returned /\ response.start_after # NoKey)
              => response.start_after > request.start_after
        /\ calls >= 2 => response.status = "returned"

\* C16 (as claimed): after an invocation the request object holds the same
\* fields and values as when the invocation started.
C16_RequestUnchanged ==
    (calls >= 1 /\ pc \in {"returned", "raised", "done"}) => event = request

\* the page, counted from 0, on which the call gets the object with key k
PageOf(k) ==
    (Cardinality({i \in 1..Len(ListedAfter(request.start_after)) :
                     ListedAfter(request.start_after)[i].Key <= k}) - 1)
        \div PageSize

\* C17: once the running total has exceeded the budget at some object, the batch
\* holds the matching objects listed before that object and nothing after it,
\* on whatever page, and start_after is the key of the last of them.
C17_NothingAfterBudgetTrip ==
    (Returned /\ response.tripped # NoKey) =>
        /\ response.objects =
              Descriptors(SelectSeq(MatchingAfter(request.filename_regex,
                                                  request.start_after),
                                    LAMBDA o: o.Key < response.tripped))
        /\ response.start_after = Last(response.objects).remote_fileurl
        /\ response.start_after < response.tripped

\* the budget trips on some page, and matching objects follow both on that page
\* and on a later one
C17_Witness ==
    /\ Returned
    /\ response.tripped # NoKey
    /\ \E i \in 1..Len(listing) :
          /\ listing[i].Key > response.tripped
          /\ PageOf(listing[i].Key) = PageOf(response.tripped)
          /\ request.filename_regex \in {None, listing[i].ext}
    /\ \E i \in 1..Len(listing) :
          /\ PageOf(listing[i].Key) > PageOf(response.tripped)
          /\ request.filename_regex \in {None, listing[i].ext}

(***************************************************************************)
(* Properties of BaseEvent.item_id                                         *)
(***************************************************************************)
IdCalled == id_result.status # "none"
IdMatches == re_findall(base_event.id_regex, base_event.remote_fileurl)

\* the result comes from the pattern: the joined groups of its only match, or
\* the failure when it does not match exactly once
FromPattern ==
    \/ /\ Len(IdMatches) = 1
       /\ id_result = [status |-> "returned", id |-> Join(IdMatches[1])]
    \/ /\ Len(IdMatches) # 1
       /\ id_result.status = "AssertionError"
FromProductId == id_result = [status |-> "returned", id |-> base_event.product_id]
FromStem ==
    id_result = [status |-> "returned", id |-> PathStem(base_event.remote_fileurl)]

\* C8 (as claimed): id_regex set (not None) => the result comes from the
\* pattern; else product_id set (not None) => product_id; else the filename stem.
C8_PrecedenceWhenSet ==
    IdCalled =>
        IF base_event.id_regex # NoneStr THEN FromPattern
        ELSE IF base_event.product_id # NoneStr THEN FromProductId
        ELSE FromStem

\* C8 (amended): the same precedence, a field counting as set when it is a
\* non-empty string (None and "" both count as unset).
C8_PrecedenceWhenNonEmpty ==
    IdCalled =>
        IF Truthy(base_event.id_regex) THEN FromPattern
        ELSE IF Truthy(base_event.product_id) THEN FromProductId
        ELSE FromStem

C8_Witness ==
    /\ IdCalled
    /\ Truthy(base_event.id_regex)
    /\ Truthy(base_event.product_id)
    /\ id_result.status = "returned"
    /\ id_result.id # base_event.product_id
    /\ id_result.id # PathStem(base_event.remote_fileurl)

\* C9 (as claimed): id_regex set (not None) and a number of matches other than
\* one => item_id fails.
C9_FailsUnlessOneMatch ==
    (IdCalled /\ base_event.id_regex # NoneStr /\ Len(IdMatches) # 1)
        => id_result.status = "AssertionError"

\* C9 (amended): id_regex a non-empty pattern and a number of matches other
\* than one => item_id fails, returning no identifier.
C9_NonEmptyFailsUnlessOneMatch ==
    (IdCalled /\ Truthy(base_event.id_regex) /\ Len(IdMatches) # 1)
        => id_result = [status |-> "AssertionError", id |-> << >>]

C9_Witness ==
    /\ IdCalled
    /\ Truthy(base_event.id_regex)
    /\ Len(IdMatches) >= 2
    /\ Truthy(base_event.product_id)
    /\ id_result.status = "AssertionError"

(***************************************************************************)
(* Properties of the build-stac handler                                    *)
(***************************************************************************)
StacCalled == stac_out.n >= 1

\* C10 (as claimed): a raw event with a granule_id field is parsed as CmrEvent
\* whatever the field's value, one without the field as RegexEvent.
C10_VariantByPresence ==
    (StacCalled /\ stac_out.status # "ValidationError") =>
        /\ raw_event.granule_id # "absent" => stac_out.variant = "CmrEvent"
        /\ raw_event.granule_id = "absent" => stac_out.variant = "RegexEvent"

\* C10 (amended): a raw event is parsed as CmrEvent when its granule_id field is
\* there with a non-empty, non-null value, and as RegexEvent when the field is
\* missing, null or empty.
C10_VariantByTruthiness ==
    StacCalled =>
        /\ raw_event.granule_id = "G1200110617-ESA_MAAP"
              => stac_out.variant = "CmrEvent"
        /\ raw_event.granule_id \in {"absent", "null", ""}
              => stac_out.variant = "RegexEvent"

C10_Witness ==
    /\ StacCalled
    /\ raw_event.granule_id \in {"null", ""}
    /\ stac_out.variant = "RegexEvent"
    /\ stac_out.status = "returned"

\* C13 (as claimed): an item whose JSON serialization is shorter than
\* 256 * 1024 bytes is returned inline, one of 256 * 1024 bytes or more as a
\* pointer.
C13_ExactThreshold ==
    (StacCalled /\ stac_out.kind # "none")
        => (stac_out.kind = "stac_item" <=> stac_out.item_len < InlineLimit)

\* C14: the addresses written by the invocations that return a pointer are
\* pairwise distinct, also for items of equal content, and the address an
\* invocation returns was written by no earlier invocation.
C14_DistinctAddresses ==
    /\ \A i, j \in 1..Len(store) : i < j => store[i].key # store[j].key
    /\ (StacCalled /\ stac_out.kind = "stac_file_url") =>
          \A i \in 1..(Len(store) - 1) : store[i].key # stac_out.key

C14_Witness ==
    /\ Len(store) = 2
    /\ store[1].item_len = store[2].item_len
    /\ stac_out.kind = "stac_file_url"

\* C18: an invocation that returns a pointer writes to the store exactly once,
\* at the address it returns; every other invocation leaves the store as it was.
C18_WritesOnceIffPointer ==
    [][IF stac_out'.kind = "stac_file_url"
       THEN store' = Append(store, [key |-> stac_out'.key,
                                    item_len |-> stac_out'.item_len])
       ELSE store' = store]_vars

C18_Witness ==
    /\ stac_out.n = 2
    /\ stac_out.kind = "stac_file_url"
    /\ Len(store) = 1
    /\ store[1].key = stac_out.key

(***************************************************************************)
(* Properties of the stac-gen handler                                      *)
(***************************************************************************)
GenCalled == gen_out.n >= 1

\* C11 (as claimed): an event with both a granule id and a pattern-based
\* strategy field, or with neither, is rejected with an error delivered to the
\* caller, and no item is produced.
C11_StrategyErrorDelivered ==
    (GenCalled /\ gen_call.event.granule_id = gen_call.event.datetime_regex)
        => /\ gen_out.raised # "none"
           /\ gen_out.returned = "nothing"

\* C12 (as claimed): when the catalog lookup, the parsing of the timestamp or
\* the raster item builder fails, the handler delivers a failure to its caller
\* and does not complete normally with an empty return.
DerivationFailed ==
    /\ gen_call.event.fields
    /\ gen_call.event.granule_id # gen_call.event.datetime_regex
    /\ IF gen_call.event.granule_id
       THEN ~gen_call.cmr_ok \/ ~gen_call.item_ok
       ELSE gen_call.pattern_ok /\ (~gen_call.date_ok \/ ~gen_call.item_ok)
C12_DerivationFailureDelivered ==
    (GenCalled /\ DerivationFailed)
        => /\ gen_out.raised # "none"
           /\ gen_out.returned # "None"

====
